---- MODULE Spec2Model ----
(***************************************************************************)
(* hillpylib.py: time-bin indexing, bin alignment, occupancy fractions of  *)
(* a stay record and the relationship of a stay to an analysis window.     *)
(*                                                                         *)
(* Every function of the library is pure.  The model is a caller that      *)
(* invokes one function on one input: `call` names the function, `args`    *)
(* holds its arguments, `pc` tells whether it has been invoked and `ret`   *)
(* holds the outcome: either a returned value (kind "ok") or the exception *)
(* that propagated.                                                        *)
(*                                                                         *)
(* A datetime is [day, secs, us]: the day ordinal, the whole seconds since *)
(* midnight and the microseconds, as datetime.datetime keeps them.  A      *)
(* timedelta is [days, seconds, microseconds], normalised as Python        *)
(* normalises it (0 <= seconds < 86400, 0 <= microseconds < 10^6, days of  *)
(* either sign).  A float that the code obtains by dividing two integers   *)
(* is kept as the exact rational [num, den] in lowest terms.               *)
(***************************************************************************)
EXTENDS Integers, FiniteSets, Sequences, TLC

VARIABLES pc, call, args, ret

vars == <<pc, call, args, ret>>

(***************************************************************************)
(* Bounds of the sampled inputs.                                           *)
(***************************************************************************)
\* datetimes are drawn from the day ordinals 0..MaxDay
MaxDay == 1
\* the classifier's four instants are drawn from 0..MaxTime
MaxTime == 4
\* every bin size of 1..MaxSmallBin minutes is tried, beside the chosen ones
MaxSmallBin == 5

(***************************************************************************)
(* Units of datetime / timedelta.                                          *)
(***************************************************************************)
SecsPerMin == 60
MinsPerDay == 24 * 60
SecsPerDay == 24 * 60 * 60
SecsPerHour == 60 * 60
MicrosPerSec == 1000 * 1000

(***************************************************************************)
(* Python 3 integer and float arithmetic.                                  *)
(***************************************************************************)
\* a // b for integers, b # 0: floor division, whatever the signs
PyFloorDiv(a, b) == IF b > 0 THEN a \div b ELSE (-a) \div (-b)

\* math.ceil(a / b) for integers, b # 0
PyCeilDiv(a, b) == -PyFloorDiv(-a, b)

\* math.trunc(a / b) for integers, b # 0: rounds towards zero
PyTruncDiv(a, b) ==
    LET q == PyFloorDiv(a, b)
    IN  IF q < 0 /\ q * b # a THEN q + 1 ELSE q

Abs(n) == IF n < 0 THEN -n ELSE n

RECURSIVE Gcd(_, _)
Gcd(a, b) == IF b = 0 THEN a ELSE Gcd(b, a % b)

\* the quotient n / d (d # 0) as a rational in lowest terms, den > 0
Rat(n, d) ==
    LET g == Gcd(Abs(n), Abs(d))
        s == IF d < 0 THEN -1 ELSE 1
    IN  [num |-> s * (n \div g), den |-> s * (d \div g)]

RatAdd(p, q) ==
    LET l == (p.den \div Gcd(p.den, q.den)) * q.den
    IN  Rat(p.num * (l \div p.den) + q.num * (l \div q.den), l)

RatLE(p, q) == p.num * q.den <= q.num * p.den

RatZero == [num |-> 0, den |-> 1]
RatOne == [num |-> 1, den |-> 1]

(***************************************************************************)
(* datetime and timedelta values.                                          *)
(***************************************************************************)
\* timedelta(days, seconds, microseconds), normalised
timedelta(d, s, u) ==
    LET s2 == s + (u \div MicrosPerSec)
    IN  [days |-> d + (s2 \div SecsPerDay),
         seconds |-> s2 % SecsPerDay,
         microseconds |-> u % MicrosPerSec]

\* timedelta(minutes=m)
td_minutes(m) == timedelta(0, m * SecsPerMin, 0)

\* dt + td
dt_add(dt, td) ==
    LET n == timedelta(dt.day + td.days, dt.secs + td.seconds,
                       dt.us + td.microseconds)
    IN  [day |-> n.days, secs |-> n.seconds, us |-> n.microseconds]

\* a - b for two datetimes
dt_sub(a, b) == timedelta(a.day - b.day, a.secs - b.secs, a.us - b.us)

dt_lt(a, b) ==
    \/ a.day < b.day
    \/ a.day = b.day /\ a.secs < b.secs
    \/ a.day = b.day /\ a.secs = b.secs /\ a.us < b.us

dt_le(a, b) == a = b \/ dt_lt(a, b)

\* min(a, b) and max(a, b) of two datetimes
dt_min(a, b) == IF dt_lt(b, a) THEN b ELSE a
dt_max(a, b) == IF dt_lt(a, b) THEN b ELSE a

hour(dt) == dt.secs \div SecsPerHour
minute(dt) == (dt.secs % SecsPerHour) \div SecsPerMin

\* (dt - dt.min).seconds: the whole seconds since midnight of dt's day
seconds_of_day(dt) == dt_sub(dt, [day |-> 0, secs |-> 0, us |-> 0]).seconds

Return(v) == [kind |-> "ok", val |-> v]
Raise(e) == [kind |-> e]

(***************************************************************************)
(* td_to_mins                                                              *)
(***************************************************************************)
td_to_mins(x) ==
    RatAdd(RatAdd(Rat(x.days * 24 * 60, 1), Rat(x.seconds, 60)),
           Rat(x.microseconds, 6000))

(***************************************************************************)
(* binofday                                                                *)
(***************************************************************************)
\* a faulty variant: it rounds the quotient up instead of truncating it
binofday_roundsup(dt, binsizemins) ==
    IF binsizemins = 0 THEN Raise("ZeroDivisionError")
    ELSE Return(PyCeilDiv((hour(dt) * 60) + minute(dt), binsizemins))

binofday(dt, binsizemins) ==
    IF binsizemins = 0 THEN Raise("ZeroDivisionError")
    ELSE Return(PyTruncDiv((hour(dt) * 60) + minute(dt), binsizemins))

(***************************************************************************)
(* rounddownTime, roundupTime                                              *)
(***************************************************************************)
\* a faulty variant: it rounds to the next multiple instead of the previous one
floorTime_ceil(seconds, roundSecsTo) ==
    PyCeilDiv(seconds, roundSecsTo) * roundSecsTo

floorTime(seconds, roundSecsTo) ==
    PyFloorDiv(seconds, roundSecsTo) * roundSecsTo

rounddownTime(dt, roundMinsTo) ==
    LET roundSecsTo == roundMinsTo * 60
        seconds == seconds_of_day(dt)
    IN  IF roundSecsTo = 0 THEN Raise("ZeroDivisionError")
        ELSE Return(dt_add(dt, timedelta(0,
                        floorTime(seconds, roundSecsTo) - seconds, -dt.us)))

\* a faulty variant: it always moves on to the next bin boundary
ceilingTime_next(seconds, roundSecsTo) ==
    (PyFloorDiv(seconds, roundSecsTo) + 1) * roundSecsTo

ceilingTime(seconds, roundSecsTo) ==
    PyCeilDiv(seconds, roundSecsTo) * roundSecsTo

roundupTime(dt, roundMinsTo) ==
    LET roundSecsTo == roundMinsTo * 60
        seconds == seconds_of_day(dt)
    IN  IF roundSecsTo = 0 THEN Raise("ZeroDivisionError")
        ELSE Return(dt_add(dt, timedelta(0,
                        ceilingTime(seconds, roundSecsTo) - seconds, -dt.us)))

(***************************************************************************)
(* occ_frac                                                                *)
(***************************************************************************)
\* a faulty variant: it takes the later of the two instants as the right edge
rightedge_max(indtbin, binsize_mins, outtime) ==
    dt_max(dt_add(indtbin, td_minutes(binsize_mins)), outtime)

rightedge(indtbin, binsize_mins, outtime) ==
    dt_min(dt_add(indtbin, td_minutes(binsize_mins)), outtime)

leftedge(outdtbin, intime) == dt_max(outdtbin, intime)

\* the two assert statements: each fraction <= 1.0 and >= 0.0
frac_ok(f) == RatLE(f, RatOne) /\ RatLE(RatZero, f)

occ_frac(intime, outtime, binsize_mins) ==
    LET r_in == rounddownTime(intime, binsize_mins)
        r_out == rounddownTime(outtime, binsize_mins)
    IN  IF r_in.kind # "ok" THEN r_in
        ELSE IF r_out.kind # "ok" THEN r_out
        ELSE
          LET indtbin == r_in.val
              outdtbin == r_out.val
              inbin_occ_secs ==
                  dt_sub(rightedge(indtbin, binsize_mins, outtime),
                         intime).seconds
              inbin_occ_frac == Rat(inbin_occ_secs, binsize_mins * 60)
              outbin_occ_secs ==
                  dt_sub(outtime, leftedge(outdtbin, intime)).seconds
              outbin_occ_frac ==
                  IF indtbin = outdtbin THEN RatZero
                  ELSE Rat(outbin_occ_secs, binsize_mins * 60)
          IN  IF ~frac_ok(inbin_occ_frac) THEN Raise("AssertionError")
              ELSE IF ~frac_ok(outbin_occ_frac) THEN Raise("AssertionError")
              ELSE Return(<<inbin_occ_frac, outbin_occ_frac>>)

(***************************************************************************)
(* stoprec_analysis_rltnshp                                                *)
(***************************************************************************)
\* a faulty variant: it tests the window end strictly in the 'right' rule
rltnshp_right_strict(rec_in, rec_out, a_start, a_end) ==
    IF rec_in > rec_out THEN "backwards"
    ELSE IF (a_start <= rec_in /\ rec_in < a_end)
            /\ (a_start <= rec_out /\ rec_out < a_end) THEN "inner"
    ELSE IF (a_start <= rec_in /\ rec_in < a_end) /\ rec_out > a_end
         THEN "right"
    ELSE IF rec_in < a_start /\ (a_start <= rec_out /\ rec_out < a_end)
         THEN "left"
    ELSE IF rec_in < a_start /\ rec_out >= a_end THEN "outer"
    ELSE "none"

\* a faulty variant: it tests the window end inclusively in the 'inner' rule
rltnshp_inner_closed(rec_in, rec_out, a_start, a_end) ==
    IF rec_in > rec_out THEN "backwards"
    ELSE IF (a_start <= rec_in /\ rec_in < a_end)
            /\ (a_start <= rec_out /\ rec_out <= a_end) THEN "inner"
    ELSE IF (a_start <= rec_in /\ rec_in < a_end) /\ rec_out >= a_end
         THEN "right"
    ELSE IF rec_in < a_start /\ (a_start <= rec_out /\ rec_out < a_end)
         THEN "left"
    ELSE IF rec_in < a_start /\ rec_out >= a_end THEN "outer"
    ELSE "none"

\* a faulty variant: it takes a zero-length record for a reversed one
rltnshp_backwards_ge(rec_in, rec_out, a_start, a_end) ==
    IF rec_in >= rec_out THEN "backwards"
    ELSE IF (a_start <= rec_in /\ rec_in < a_end)
            /\ (a_start <= rec_out /\ rec_out < a_end) THEN "inner"
    ELSE IF (a_start <= rec_in /\ rec_in < a_end) /\ rec_out >= a_end
         THEN "right"
    ELSE IF rec_in < a_start /\ (a_start <= rec_out /\ rec_out < a_end)
         THEN "left"
    ELSE IF rec_in < a_start /\ rec_out >= a_end THEN "outer"
    ELSE "none"

stoprec_analysis_rltnshp(rec_in, rec_out, a_start, a_end) ==
    IF rec_in > rec_out THEN "backwards"
    ELSE IF (a_start <= rec_in /\ rec_in < a_end)
            /\ (a_start <= rec_out /\ rec_out < a_end) THEN "inner"
    ELSE IF (a_start <= rec_in /\ rec_in < a_end) /\ rec_out >= a_end
         THEN "right"
    ELSE IF rec_in < a_start /\ (a_start <= rec_out /\ rec_out < a_end)
         THEN "left"
    ELSE IF rec_in < a_start /\ rec_out >= a_end THEN "outer"
    ELSE "none"

(***************************************************************************)
(* The inputs the caller draws from.                                       *)
(***************************************************************************)
Days == 0 .. MaxDay

\* times of day, in whole seconds since midnight: on and around the hour,
\* the half hour and both ends of the day
TimesOfDay ==
    { h * SecsPerHour + m * SecsPerMin + s :
        h \in {0, 1, 10, 12, 23}, m \in {0, 10, 29, 30, 45, 58, 59},
        s \in {0, 1, 59} }

Micros == {0, 500000}

Datetimes ==
    { [day |-> d, secs |-> s, us |-> u] :
        d \in Days, s \in TimesOfDay, u \in Micros }

\* bin sizes in minutes: every small one, divisors of a day, sizes that do
\* not divide it, a whole day and more than a day, and three that are not
\* positive
BinSizes ==
    (1 .. MaxSmallBin)
        \cup {7, 15, 30, 60, 720, 1439, 1440, 1441, 2000}
        \cup {0, -30, -2880}

\* the lengths of a stay; the last two give a record with exit before entry
StayLengths ==
    { timedelta(d, s, u) :
        d \in Days, s \in {0, 1, 600, 1800, 2700, 3600, 86399},
        u \in Micros }
    \cup { timedelta(0, -600, 0), timedelta(-1, 0, 0) }

\* the durations handed to td_to_mins
Durations ==
    { timedelta(d, s, u) :
        d \in -1 .. MaxDay, s \in {0, 1, 59, 60, 90, 86399},
        u \in {0, 1, 6000, 60000, 500000, 999999} }

\* the instants of the classifier, which only compares them
Instants == 0 .. MaxTime

(***************************************************************************)
(* The caller: it holds the name of one function and one input for it      *)
(* (pc = "call"), invokes the function, and is left with the outcome       *)
(* (pc = "done").                                                          *)
(***************************************************************************)
\* the argument lists of each function
Args_td_to_mins == { [x |-> x] : x \in Durations }

\* dt_is_none: the caller passed None and dt is what datetime.now() gave
Args_binofday ==
    { [dt |-> dt, binsizemins |-> b, dt_is_none |-> none] :
        dt \in Datetimes, b \in BinSizes, none \in BOOLEAN }

Args_roundTime ==
    { [dt |-> dt, roundMinsTo |-> b] : dt \in Datetimes, b \in BinSizes }

Args_occ_frac ==
    { [intime |-> intime, outtime |-> dt_add(intime, len),
       binsize_mins |-> b] :
        intime \in Datetimes, len \in StayLengths, b \in BinSizes }

Args_stoprec_analysis_rltnshp ==
    { [rec_in |-> rec_in, rec_out |-> rec_out,
       a_start |-> a_start, a_end |-> a_end] :
        rec_in \in Instants, rec_out \in Instants,
        a_start \in Instants, a_end \in Instants }

Init ==
    /\ pc = "call"
    /\ ret = <<>>
    /\ \/ call = "td_to_mins" /\ args \in Args_td_to_mins
       \/ call = "binofday" /\ args \in Args_binofday
       \/ call = "rounddownTime" /\ args \in Args_roundTime
       \/ call = "roundupTime" /\ args \in Args_roundTime
       \/ call = "occ_frac" /\ args \in Args_occ_frac
       \/ call = "stoprec_analysis_rltnshp"
            /\ args \in Args_stoprec_analysis_rltnshp

Call_td_to_mins ==
    /\ pc = "call" /\ call = "td_to_mins"
    /\ ret' = Return(td_to_mins(args.x))
    /\ pc' = "done"
    /\ UNCHANGED <<call, args>>

Call_binofday ==
    /\ pc = "call" /\ call = "binofday"
    /\ ret' = binofday(args.dt, args.binsizemins)
    /\ pc' = "done"
    /\ UNCHANGED <<call, args>>

Call_rounddownTime ==
    /\ pc = "call" /\ call = "rounddownTime"
    /\ ret' = rounddownTime(args.dt, args.roundMinsTo)
    /\ pc' = "done"
    /\ UNCHANGED <<call, args>>

Call_roundupTime ==
    /\ pc = "call" /\ call = "roundupTime"
    /\ ret' = roundupTime(args.dt, args.roundMinsTo)
    /\ pc' = "done"
    /\ UNCHANGED <<call, args>>

Call_occ_frac ==
    /\ pc = "call" /\ call = "occ_frac"
    /\ ret' = occ_frac(args.intime, args.outtime, args.binsize_mins)
    /\ pc' = "done"
    /\ UNCHANGED <<call, args>>

Call_stoprec_analysis_rltnshp ==
    /\ pc = "call" /\ call = "stoprec_analysis_rltnshp"
    /\ ret' = Return(stoprec_analysis_rltnshp(args.rec_in, args.rec_out,
                                              args.a_start, args.a_end))
    /\ pc' = "done"
    /\ UNCHANGED <<call, args>>

Next ==
    \/ Call_td_to_mins
    \/ Call_binofday
    \/ Call_rounddownTime
    \/ Call_roundupTime
    \/ Call_occ_frac
    \/ Call_stoprec_analysis_rltnshp

Spec == Init /\ [][Next]_vars

(***************************************************************************)
(* Properties.                                                             *)
(***************************************************************************)
\* the function f has been invoked and its outcome is in ret
Returned(f) == pc = "done" /\ call = f

Midnight(dt) == [day |-> dt.day, secs |-> 0, us |-> 0]
NoSubSecond(dt) == [day |-> dt.day, secs |-> dt.secs, us |-> 0]
InUnitInterval(f) == RatLE(RatZero, f) /\ RatLE(f, RatOne)
WellOrderedStay ==
    Returned("occ_frac") /\ dt_le(args.intime, args.outtime)

\* C1: for every stay with entry <= exit and every positive bin size,
\* occ_frac returns, with neither assertion tripped, two fractions that
\* both lie in [0.0, 1.0].
C1_FractionsInUnitInterval ==
    (WellOrderedStay /\ args.binsize_mins > 0) =>
        /\ ret.kind = "ok"
        /\ InUnitInterval(ret.val[1])
        /\ InUnitInterval(ret.val[2])

\* a stay 10:00 - 10:45 in 30 minute bins: fractions 1.0 and 0.5
C1_Witness ==
    /\ Returned("occ_frac")
    /\ args.intime = [day |-> 0, secs |-> 10 * SecsPerHour, us |-> 0]
    /\ args.outtime = [day |-> 0, secs |-> 10 * SecsPerHour + 2700, us |-> 0]
    /\ args.binsize_mins = 30
    /\ ret = Return(<<RatOne, Rat(1, 2)>>)

\* C2: for every stay with entry <= exit and every positive bin size up to
\* and including 1440 minutes, the entry-bin fraction is the full elapsed
\* time in whole seconds from entry to min(entry_bin_start + bin, exit)
\* divided by bin*60; a stay that starts on a bin boundary and ends at or
\* after the end of that bin gets 1.0.
C2_InbinFracIsElapsedOverBin ==
    (WellOrderedStay /\ args.binsize_mins > 0
        /\ args.binsize_mins <= MinsPerDay) =>
        LET b == args.binsize_mins
            entry_bin_start == rounddownTime(args.intime, b).val
            bin_end == dt_add(entry_bin_start, td_minutes(b))
            elapsed == dt_sub(dt_min(bin_end, args.outtime), args.intime)
            elapsed_secs == elapsed.days * SecsPerDay + elapsed.seconds
        IN  /\ ret.kind = "ok"
            /\ ret.val[1] = Rat(elapsed_secs, b * 60)
            /\ (args.intime = entry_bin_start /\ dt_le(bin_end, args.outtime))
                   => ret.val[1] = RatOne

\* C3: the classifier is total: it returns one of the six labels, the label
\* of the first rule that matches in the order backwards, inner, right,
\* left, outer, none, the window start tested with >= and the window end
\* with <; a stay with entry inside the window and exit = window end is
\* 'right'.
C3_FirstMatchingRule ==
    Returned("stoprec_analysis_rltnshp") =>
        LET i == args.rec_in
            o == args.rec_out
            InWindow(t) == args.a_start <= t /\ t < args.a_end
            rules == << <<i > o, "backwards">>,
                        <<InWindow(i) /\ InWindow(o), "inner">>,
                        <<InWindow(i) /\ o >= args.a_end, "right">>,
                        <<i < args.a_start /\ InWindow(o), "left">>,
                        <<i < args.a_start /\ o >= args.a_end, "outer">>,
                        <<TRUE, "none">> >>
            first == CHOOSE k \in 1 .. 6 :
                        rules[k][1] /\ \A j \in 1 .. (k - 1) : ~rules[j][1]
        IN  /\ ret.kind = "ok"
            /\ ret.val \in {"inner", "left", "right", "outer", "backwards",
                            "none"}
            /\ ret.val = rules[first][2]
            /\ (InWindow(i) /\ o = args.a_end) => ret.val = "right"

\* entry inside the window, exit on the window end: 'right'
C3_Witness ==
    /\ Returned("stoprec_analysis_rltnshp")
    /\ args.a_start <= args.rec_in /\ args.rec_in < args.a_end
    /\ args.rec_out = args.a_end
    /\ ret = Return("right")

\* C4: a record with entry > exit is classified 'backwards' whatever the
\* window, and no record with entry <= exit is.
C4_BackwardsIffReversed ==
    Returned("stoprec_analysis_rltnshp") =>
        ((ret.val = "backwards") <=> (args.rec_in > args.rec_out))

\* a reversed record against a window whose start is not before its end
C4_Witness ==
    /\ Returned("stoprec_analysis_rltnshp")
    /\ args.rec_in > args.rec_out
    /\ args.a_start >= args.a_end
    /\ ret = Return("backwards")

\* C5: for every timestamp t and positive bin size b, rounddownTime returns
\* a whole-second instant f, a multiple of the bin length after midnight of
\* t's day, with f <= t < f + b minutes.
C5_FloorBrackets ==
    (Returned("rounddownTime") /\ args.roundMinsTo > 0) =>
        /\ ret.kind = "ok"
        /\ ret.val.us = 0
        /\ ret.val.day = args.dt.day
        /\ dt_sub(ret.val, Midnight(args.dt)).seconds
               % (args.roundMinsTo * SecsPerMin) = 0
        /\ dt_le(ret.val, args.dt)
        /\ dt_lt(args.dt, dt_add(ret.val, td_minutes(args.roundMinsTo)))

\* 10:10:01.5 floors to 10:00:00 in 30 minute bins
C5_Witness ==
    /\ Returned("rounddownTime")
    /\ args.roundMinsTo = 30
    /\ args.dt = [day |-> 1, secs |-> 10 * SecsPerHour + 601, us |-> 500000]
    /\ ret = Return([day |-> 1, secs |-> 10 * SecsPerHour, us |-> 0])

\* C6: for a timestamp whose seconds since midnight are an exact multiple
\* of the bin length, roundupTime returns it with the sub-second part
\* cleared, never the next bin boundary.
C6_CeilOfAlignedIsItself ==
    (Returned("roundupTime") /\ args.roundMinsTo > 0
        /\ args.dt.secs % (args.roundMinsTo * SecsPerMin) = 0) =>
        ret = Return(NoSubSecond(args.dt))

\* 10:30:00.5 is on a 30 minute boundary and comes back as 10:30:00
C6_Witness ==
    /\ Returned("roundupTime")
    /\ args.roundMinsTo = 30
    /\ args.dt = [day |-> 0, secs |-> 10 * SecsPerHour + 1800, us |-> 500000]
    /\ ret = Return([day |-> 0, secs |-> 10 * SecsPerHour + 1800, us |-> 0])

\* C7: a bin size of 0 or less passed to rounddownTime, roundupTime or
\* occ_frac always ends in an error that propagates to the caller; no
\* aligned timestamp and no pair of fractions is returned for it.
C7_NonPositiveBinIsAnError ==
    /\ ((Returned("rounddownTime") \/ Returned("roundupTime"))
            /\ args.roundMinsTo <= 0) => ret.kind # "ok"
    /\ (Returned("occ_frac") /\ args.binsize_mins <= 0) => ret.kind # "ok"

\* C8: td_to_mins returns days*1440 + seconds/60 + microseconds/60000.
C8_MinutesFormula ==
    Returned("td_to_mins") =>
        ret = Return(RatAdd(RatAdd(Rat(args.x.days * MinsPerDay, 1),
                                   Rat(args.x.seconds, 60)),
                            Rat(args.x.microseconds, 60000)))

\* C9: for every positive bin size b and timestamp t, binofday returns
\* floor((hour(t)*60 + minute(t)) / b), an index in 0 .. floor(1439/b).
C9_BinOfDayIndex ==
    (Returned("binofday") /\ args.binsizemins > 0) =>
        /\ ret.kind = "ok"
        /\ ret.val = (args.dt.secs \div SecsPerMin) \div args.binsizemins
        /\ 0 <= ret.val
        /\ ret.val <= (MinsPerDay - 1) \div args.binsizemins

\* 01:45 with 30 minute bins is bin 3
C9_Witness ==
    /\ Returned("binofday")
    /\ args.dt.secs = SecsPerHour + 45 * SecsPerMin
    /\ args.binsizemins = 30
    /\ ret = Return(3)

\* C10: for a stay with entry <= exit and a window with start < end, the
\* label is 'none' exactly when the stay ends before the window start or
\* begins at or after the window end; otherwise it is one of inner, left,
\* right, outer.
C10_NoneIffDisjoint ==
    (Returned("stoprec_analysis_rltnshp") /\ args.rec_in <= args.rec_out
        /\ args.a_start < args.a_end) =>
        /\ (ret.val = "none") <=>
               (args.rec_out < args.a_start \/ args.rec_in >= args.a_end)
        /\ ret.val # "none" => ret.val \in {"inner", "left", "right", "outer"}

\* a stay that begins exactly on the window end: 'none'
C10_Witness ==
    /\ Returned("stoprec_analysis_rltnshp")
    /\ args.a_start < args.a_end
    /\ args.rec_in = args.a_end
    /\ args.rec_in < args.rec_out
    /\ ret = Return("none")

====
